---- MODULE Spec2Model ----
(***************************************************************************)
(* One call of the telephony <-> voice-agent media bridge.  The repository *)
(* holds three variants of the same bridge:                                *)
(*   "main" : src/media-bridge.ts   (JSON/base64 audio, no pending queue)   *)
(*   "p0"   : src/unnamed/part_000  (binary audio, queue of base64 strings) *)
(*   "p1"   : src/unnamed/part_001  (binary audio, queue of Uint8Array)     *)
(* The variant is fixed in Init; every handler is one action.               *)
(*                                                                         *)
(* Strings that the code decodes or encodes (base64 text) are sequences of *)
(* character codes: 0..63 is a character of the base64 alphabet (its       *)
(* sextet value), PadChar is '=', BadChar is any other character.  Byte    *)
(* buffers are sequences over 0..255.                                      *)
(***************************************************************************)
EXTENDS Integers, Sequences, FiniteSets, TLC

VARIABLES
    variant,          \* which source file is running
    pc,               \* position of the async twilioSocket.onopen body
    twilioState,      \* twilioSocket.readyState
    elState,          \* "null" while elevenlabsSocket === null, else its readyState
    streamSid,        \* let streamSid
    elevenlabsReady,  \* let elevenlabsReady
    audioBuffer,      \* const audioBuffer (p0: base64 strings, p1: byte arrays)
    pendingBlobs,     \* agent Blob frames whose arrayBuffer() promise is pending
    elSent,           \* log of elevenlabsSocket.send() calls, in call order
    twSent,           \* log of twilioSocket.send() calls, in call order
    twCloseCalls,     \* number of twilioSocket.close() calls
    elCloseCalls,     \* number of elevenlabsSocket.close() calls
    nMsgs,            \* messages handled so far, from either socket
    lastEv,           \* the handler that ran last, with its input
    hist              \* observations of the environment, for the properties

vars == <<variant, pc, twilioState, elState, streamSid, elevenlabsReady,
          audioBuffer, pendingBlobs, elSent, twSent, twCloseCalls,
          elCloseCalls, nMsgs, lastEv, hist>>

(***************************************************************************)
(* Bounds of the model.                                                    *)
(***************************************************************************)
MaxMsgs == 4

Variants == {"main", "p0", "p1"}
Buffering == {"p0", "p1"}

(***************************************************************************)
(* Base64, as atob() and btoa() compute it.                                *)
(***************************************************************************)
PadChar == 64
BadChar == 65

RECURSIVE DecodeSextets(_)
DecodeSextets(d) ==
    IF Len(d) = 0 THEN <<>>
    ELSE IF Len(d) >= 4 THEN
        LET n == d[1] * 262144 + d[2] * 4096 + d[3] * 64 + d[4]
        IN  <<n \div 65536, (n \div 256) % 256, n % 256>>
              \o DecodeSextets(SubSeq(d, 5, Len(d)))
    ELSE IF Len(d) = 3 THEN
        LET n == (d[1] * 4096 + d[2] * 64 + d[3]) \div 4
        IN  <<n \div 256, n % 256>>
    ELSE IF Len(d) = 2 THEN
        <<(d[1] * 64 + d[2]) \div 16>>
    ELSE <<>>

\* forgiving-base64: trailing padding is removed only from a length that is
\* a multiple of four
StripPad(s) ==
    IF Len(s) > 0 /\ Len(s) % 4 = 0 /\ s[Len(s)] = PadChar
    THEN IF s[Len(s) - 1] = PadChar
         THEN SubSeq(s, 1, Len(s) - 2)
         ELSE SubSeq(s, 1, Len(s) - 1)
    ELSE s

\* atob(s) throws InvalidCharacterError exactly when this is FALSE
AtobOk(s) ==
    LET d == StripPad(s)
    IN  /\ Len(d) % 4 # 1
        /\ \A i \in 1..Len(d) : d[i] \in 0..63

\* Uint8Array.from(atob(s), c => c.charCodeAt(0))
Atob(s) == DecodeSextets(StripPad(s))

RECURSIVE Btoa(_)
\* btoa(String.fromCharCode(...bytes))
Btoa(b) ==
    IF Len(b) = 0 THEN <<>>
    ELSE IF Len(b) >= 3 THEN
        LET n == b[1] * 65536 + b[2] * 256 + b[3]
        IN  <<n \div 262144, (n \div 4096) % 64, (n \div 64) % 64, n % 64>>
              \o Btoa(SubSeq(b, 4, Len(b)))
    ELSE IF Len(b) = 2 THEN
        LET n == (b[1] * 256 + b[2]) * 4
        IN  <<n \div 4096, (n \div 64) % 64, n % 64, PadChar>>
    ELSE
        LET n == b[1] * 16
        IN  <<n \div 64, n % 64, PadChar, PadChar>>

(***************************************************************************)
(* WebSocket primitives.                                                   *)
(***************************************************************************)
\* readyState after socket.close(): a no-op on a closing or closed socket
CloseSock(s) == IF s \in {"CONNECTING", "OPEN"} THEN "CLOSING" ELSE s

\* one socket.send() call: what was handed over and the readyState it met.
\* Only a call that meets OPEN puts a frame on the wire.
Frame(kind, data, id, sid, st) ==
    [kind |-> kind, data |-> data, id |-> id, sid |-> sid, st |-> st]

Delivered(log) == SelectSeq(log, LAMBDA f : f.st = "OPEN")

NullSid == "<null>"
UndefSid == "<undefined>"
\* values of streamSid that are falsy in `if (streamSid && ...)`
BlankSids == {NullSid, UndefSid, ""}

(***************************************************************************)
(* Inputs.                                                                 *)
(***************************************************************************)
\* base64 text of caller media payloads: "", "QQ==", "QUI=" and "Q!" (a
\* character outside the alphabet)
PayloadA == <<16, 16, PadChar, PadChar>>
PayloadAB == <<16, 20, 8, PadChar>>
Payloads == {<<>>, PayloadA, PayloadAB, <<16, BadChar>>}

StartSids == {"SID1", "SID2", ""}

CallerMsg(event, shape, sid, payload) ==
    [event |-> event, shape |-> shape, sid |-> sid, payload |-> payload]

\* the text frames the caller can send, after JSON.parse:
\*   shape "ok"        the nested field is present
\*   shape "nofield"   {event:"start", start:{}} / {event:"media", media:{}}
\*   shape "noobject"  {event:"start"} / {event:"media"}
\*   event "badjson"   text that JSON.parse rejects
CallerMsgs ==
    {CallerMsg("start", "ok", s, <<>>) : s \in StartSids}
    \cup {CallerMsg("start", sh, UndefSid, <<>>) : sh \in {"nofield", "noobject"}}
    \cup {CallerMsg("media", "ok", NullSid, p) : p \in Payloads}
    \cup {CallerMsg("media", sh, NullSid, <<>>) : sh \in {"nofield", "noobject"}}
    \cup {CallerMsg(e, "ok", NullSid, <<>>) : e \in {"stop", "badjson"}}

\* identifiers a ping can carry; 0 is the one JavaScript treats as falsy
EventIds == {0, 1, 2}
NoId == -1

AgentMsg(type, chunk, b64, id, bytes) ==
    [type |-> type, chunk |-> chunk, b64 |-> b64, id |-> id, bytes |-> bytes]

\* base64 text carried by agent "audio" events ("" also stands for an
\* absent field: both are falsy in `a?.chunk || b?.audio_base_64`)
AgentChunks == {<<>>, PayloadA}
AgentB64s == {<<>>, PayloadAB}
\* bytes of binary agent frames
AgentBlobs == {<<65>>, <<65, 66, 67>>}

\* the frames the agent can send: text frames by their `type` after
\* JSON.parse ("badjson": text that does not parse; "ping_noevent": a ping
\* without ping_event) and binary frames ("blob": binaryType is never set,
\* so binary data arrives as a Blob)
AgentMsgs ==
    {AgentMsg("audio", c, b, NoId, <<>>) : c \in AgentChunks, b \in AgentB64s}
    \cup {AgentMsg("ping", <<>>, <<>>, x, <<>>) : x \in EventIds}
    \cup {AgentMsg(t, <<>>, <<>>, NoId, <<>>) :
            t \in {"interruption", "ping_noevent", "other", "badjson"}}
    \cup {AgentMsg("blob", <<>>, <<>>, NoId, b) : b \in AgentBlobs}

Ev(kind, msg, flag) == [kind |-> kind, msg |-> msg, flag |-> flag]
NoMsg == CallerMsg("none", "ok", NullSid, <<>>)

(***************************************************************************)
(* State after `Deno.upgradeWebSocket(req)` and the `let` declarations.    *)
(***************************************************************************)
Init ==
    /\ variant \in Variants
    /\ pc = "idle"
    /\ twilioState = "CONNECTING"
    /\ elState = "null"
    /\ streamSid = NullSid
    /\ elevenlabsReady = FALSE
    /\ audioBuffer = <<>>
    /\ pendingBlobs = <<>>
    /\ elSent = <<>>
    /\ twSent = <<>>
    /\ twCloseCalls = 0
    /\ elCloseCalls = 0
    /\ nMsgs = 0
    /\ lastEv = Ev("init", NoMsg, FALSE)
    /\ hist = [fetch |-> "none", threw |-> FALSE, elOpened |-> FALSE,
               preOpenMedia |-> <<>>, liveMedia |-> <<>>,
               stopped |-> FALSE, blobsIn |-> <<>>]

(***************************************************************************)
(* twilioSocket.onopen: the async connection sequence.                     *)
(***************************************************************************)
\* the catch block / the non-success branch: twilioSocket.close()
TwilioCloseCall ==
    /\ twilioState' = CloseSock(twilioState)
    /\ twCloseCalls' = twCloseCalls + 1

\* the open event: the body runs up to `await fetch(...)`
TwilioOnOpen ==
    /\ twilioState = "CONNECTING"
    /\ twilioState' = "OPEN"
    /\ pc' = "fetch"
    /\ lastEv' = Ev("twOpen", NoMsg, FALSE)
    /\ UNCHANGED <<variant, elState, streamSid, elevenlabsReady, audioBuffer,
                   pendingBlobs, elSent, twSent, twCloseCalls, elCloseCalls,
                   nMsgs, hist>>

\* what the code does when the fetch promise settles
FetchSettled(outcome) ==
    /\ hist' = [hist EXCEPT !.fetch = outcome, !.threw = (outcome = "throw")]
    /\ IF outcome = "ok" THEN
            /\ pc' = "json"
            /\ UNCHANGED <<twilioState, twCloseCalls>>
       ELSE IF outcome = "notok" THEN
            /\ pc' = "text"
            /\ UNCHANGED <<twilioState, twCloseCalls>>
       ELSE
            /\ pc' = "done"
            /\ TwilioCloseCall

\* `await fetch(...)` settles: a success response, a non-success response,
\* or a rejection (network error)
FetchSettle ==
    /\ pc = "fetch"
    /\ \E outcome \in {"ok", "notok", "throw"} :
          /\ FetchSettled(outcome)
          /\ lastEv' = Ev("fetch", NoMsg, outcome = "throw")
    /\ UNCHANGED <<variant, elState, streamSid, elevenlabsReady, audioBuffer,
                   pendingBlobs, elSent, twSent, elCloseCalls, nMsgs>>

\* a non-success branch that returns without closing the caller socket
TextSettledLeak(threw) ==
    /\ pc' = "done"
    /\ hist' = [hist EXCEPT !.threw = threw]
    /\ UNCHANGED <<twilioState, twCloseCalls>>

\* what the code does after `await response.text()`: close and return, or
\* the catch block when the read rejected; either way twilioSocket.close()
TextSettled(threw) ==
    /\ pc' = "done"
    /\ hist' = [hist EXCEPT !.threw = threw]
    /\ TwilioCloseCall

TextSettle ==
    /\ pc = "text"
    /\ \E threw \in BOOLEAN :
          /\ TextSettled(threw)
          /\ lastEv' = Ev("text", NoMsg, threw)
    /\ UNCHANGED <<variant, elState, streamSid, elevenlabsReady, audioBuffer,
                   pendingBlobs, elSent, twSent, elCloseCalls, nMsgs>>

\* a continuation whose exceptions escape the catch: the caller socket is
\* left as it is
JsonSettledNoCatch(outcome) ==
    /\ pc' = "done"
    /\ hist' = [hist EXCEPT !.threw = (outcome # "ok")]
    /\ elState' = IF outcome = "ok" THEN "CONNECTING" ELSE elState
    /\ UNCHANGED <<twilioState, twCloseCalls>>

\* what the code does after `await response.json()`:
\*   "ok"      new WebSocket(signed_url) succeeds and the handlers are set
\*   "badjson" response.json() rejected
\*   "badurl"  new WebSocket(...) threw (signed_url missing or not a ws URL)
JsonSettled(outcome) ==
    /\ pc' = "done"
    /\ hist' = [hist EXCEPT !.threw = (outcome # "ok")]
    /\ IF outcome = "ok" THEN
            /\ elState' = "CONNECTING"
            /\ UNCHANGED <<twilioState, twCloseCalls>>
       ELSE
            /\ elState' = elState
            /\ TwilioCloseCall

JsonSettle ==
    /\ pc = "json"
    /\ \E outcome \in {"ok", "badjson", "badurl"} :
          /\ JsonSettled(outcome)
          /\ lastEv' = Ev("json", NoMsg, outcome # "ok")
    /\ UNCHANGED <<variant, streamSid, elevenlabsReady, audioBuffer,
                   pendingBlobs, elSent, twSent, elCloseCalls, nMsgs>>

(***************************************************************************)
(* elevenlabsSocket handlers.                                              *)
(***************************************************************************)
\* elevenlabsSocket.send(JSON.stringify(initMessage / sessionConfig))
InitFrame(st) == Frame("init", <<>>, NoId, NullSid, st)

\* a flush that sends each queued unit as it was queued, without decoding
DrainFramesRaw(buf, st) ==
    [i \in 1..Len(buf) |-> Frame("bin", buf[i], NoId, NullSid, st)]

\* a flush that takes the newest unit first (pop instead of shift)
DrainFramesLifo(buf, st) ==
    [i \in 1..Len(buf) |->
        Frame("bin", IF variant = "p0" THEN Atob(buf[Len(buf) + 1 - i])
                     ELSE buf[Len(buf) + 1 - i],
              NoId, NullSid, st)]

\* the sends of the flush loop, one per queued unit, in queue order:
\* p0 decodes each queued base64 string and sends the bytes, p1 sends the
\* queued bytes (a Uint8Array is truthy whatever its length)
DrainFrames(buf, st) ==
    [i \in 1..Len(buf) |->
        Frame("bin", IF variant = "p0" THEN Atob(buf[i]) ELSE buf[i],
              NoId, NullSid, st)]

\* an open handler that flushes the queue before it sends the session
\* initialization
ElOnOpenFlushFirst ==
    /\ elState = "CONNECTING"
    /\ elState' = "OPEN"
    /\ elevenlabsReady' = TRUE
    /\ elSent' = (elSent \o (IF variant \in Buffering
                              THEN DrainFrames(audioBuffer, "OPEN") ELSE <<>>))
                    \o <<InitFrame("OPEN")>>
    /\ audioBuffer' = <<>>
    /\ hist' = [hist EXCEPT !.elOpened = TRUE]
    /\ lastEv' = Ev("elOpen", NoMsg, FALSE)
    /\ UNCHANGED <<variant, pc, twilioState, streamSid, pendingBlobs, twSent,
                   twCloseCalls, elCloseCalls, nMsgs>>

\* the agent socket's open handler: session initialization, readiness and
\* (buffering variants) the flush that empties the queue.  The socket is
\* OPEN throughout, so no send throws and the relative order of the
\* assignment to elevenlabsReady and the first send cannot be observed.
ElOnOpen ==
    /\ elState = "CONNECTING"
    /\ elState' = "OPEN"
    /\ elevenlabsReady' = TRUE
    /\ elSent' = (elSent \o <<InitFrame("OPEN")>>)
                    \o (IF variant \in Buffering
                        THEN DrainFrames(audioBuffer, "OPEN") ELSE <<>>)
    /\ audioBuffer' = <<>>
    /\ hist' = [hist EXCEPT !.elOpened = TRUE]
    /\ lastEv' = Ev("elOpen", NoMsg, FALSE)
    /\ UNCHANGED <<variant, pc, twilioState, streamSid, pendingBlobs, twSent,
                   twCloseCalls, elCloseCalls, nMsgs>>

\* a guard that forgets the session identifier
CallerGuardOpenOnly == twilioState = "OPEN"

\* `streamSid && twilioSocket.readyState === WebSocket.OPEN`
CallerGuard == streamSid \notin BlankSids /\ twilioState = "OPEN"

\* `message.audio?.chunk || message.audio_event?.audio_base_64`
AudioPayload(m) == IF m.chunk # <<>> THEN m.chunk ELSE m.b64

\* case "audio" of media-bridge.ts: the frames sent to the caller
AudioFrames(m) ==
    IF CallerGuard /\ AudioPayload(m) # <<>>
    THEN <<Frame("media", AudioPayload(m), NoId, streamSid, twilioState)>>
    ELSE <<>>

\* an interruption that clears twice
ClearFramesTwice ==
    IF CallerGuard
    THEN <<Frame("clear", <<>>, NoId, streamSid, twilioState),
           Frame("clear", <<>>, NoId, streamSid, twilioState)>>
    ELSE <<>>

\* case "interruption" of media-bridge.ts: the frames sent to the caller
ClearFrames ==
    IF CallerGuard
    THEN <<Frame("clear", <<>>, NoId, streamSid, twilioState)>>
    ELSE <<>>

\* case "ping" of media-bridge.ts: `if (message.ping_event?.event_id)` is a
\* truthiness test, so identifier 0 sends nothing.  The send is not guarded
\* by the socket's readyState.
PongFrames(m) ==
    IF m.type = "ping" /\ m.id # 0
    THEN <<Frame("pong", <<>>, m.id, NullSid, elState)>>
    ELSE <<>>

\* the binary-audio variants' continuation after arrayBuffer() resolved
BlobFrames(bytes) ==
    IF twilioState = "OPEN" /\ streamSid \notin BlankSids
    THEN <<Frame("media", Btoa(bytes), NoId, streamSid, twilioState)>>
    ELSE <<>>

\* the binary frames the agent sent, in arrival order
ObserveAgent(m) ==
    IF m.type = "blob"
    THEN [hist EXCEPT !.blobsIn = Append(@, m.bytes)]
    ELSE hist

\* the agent socket's message handler.  Messages are delivered while the
\* socket is open and, after a local close(), until the closing handshake
\* completes.  media-bridge.ts parses every frame as JSON (a binary frame or
\* unparsable text throws into the handler's catch); the binary variants
\* only log text frames and start the asynchronous read of a Blob.
ElOnMessage ==
    /\ elState \in {"OPEN", "CLOSING"}
    /\ hist.elOpened
    /\ nMsgs < MaxMsgs
    /\ nMsgs' = nMsgs + 1
    /\ \E m \in AgentMsgs :
          /\ lastEv' = Ev("elMsg", m, FALSE)
          /\ hist' = ObserveAgent(m)
          /\ IF variant = "main" THEN
                /\ twSent' = twSent \o
                      (IF m.type = "audio" THEN AudioFrames(m)
                       ELSE IF m.type = "interruption" THEN ClearFrames
                       ELSE <<>>)
                /\ elSent' = elSent \o PongFrames(m)
                /\ UNCHANGED pendingBlobs
             ELSE
                /\ pendingBlobs' = IF m.type = "blob"
                                   THEN Append(pendingBlobs, m.bytes)
                                   ELSE pendingBlobs
                /\ UNCHANGED <<twSent, elSent>>
    /\ UNCHANGED <<variant, pc, twilioState, elState, streamSid,
                   elevenlabsReady, audioBuffer, twCloseCalls, elCloseCalls>>

\* one pending arrayBuffer() promise resolves and its continuation runs.
\* The promises of different Blobs are independent: nothing orders their
\* resolution, so any pending one may be next.
BlobSettle ==
    /\ \E i \in 1..Len(pendingBlobs) :
          /\ twSent' = twSent \o BlobFrames(pendingBlobs[i])
          /\ pendingBlobs' = SubSeq(pendingBlobs, 1, i - 1)
                                \o SubSeq(pendingBlobs, i + 1, Len(pendingBlobs))
          /\ lastEv' = Ev("blob",
                          AgentMsg("blob", <<>>, <<>>, NoId, pendingBlobs[i]),
                          i > 1)
    /\ UNCHANGED <<variant, pc, twilioState, elState, streamSid,
                   elevenlabsReady, audioBuffer, elSent, twCloseCalls,
                   elCloseCalls, nMsgs, hist>>

Sock(st, calls) == [st |-> st, calls |-> calls]

\* elevenlabsSocket.onerror applied to the caller socket: part_000 calls
\* twilioSocket.close(), the other two only log
ElOnErrorEffect(tw) ==
    IF variant = "p0" THEN Sock(CloseSock(tw.st), tw.calls + 1) ELSE tw

\* a close handler that leaves the caller socket alone
ElOnCloseEffectNone(tw) == tw

\* elevenlabsSocket.onclose applied to the caller socket
ElOnCloseEffect(tw) ==
    IF tw.st = "OPEN" THEN Sock("CLOSING", tw.calls + 1) ELSE tw

\* a close handler that also resets the readiness flag
ElOnCloseResetsReady ==
    /\ elState \in {"CONNECTING", "OPEN", "CLOSING"}
    /\ \E err \in BOOLEAN :
          /\ (elState = "CONNECTING") => err
          /\ LET tw0 == Sock(twilioState, twCloseCalls)
                 tw1 == IF err THEN ElOnErrorEffect(tw0) ELSE tw0
                 tw2 == ElOnCloseEffect(tw1)
             IN  /\ twilioState' = tw2.st
                 /\ twCloseCalls' = tw2.calls
          /\ lastEv' = Ev("elClose", NoMsg, err)
    /\ elState' = "CLOSED"
    /\ elevenlabsReady' = FALSE
    /\ UNCHANGED <<variant, pc, streamSid, audioBuffer, pendingBlobs, elSent,
                   twSent, elCloseCalls, nMsgs, hist>>

\* the agent connection ends: cleanly (close event only) or by failure
\* (error event, then close event, in the same task).  A connection that
\* never opened can only end by failure.
ElOnClose ==
    /\ elState \in {"CONNECTING", "OPEN", "CLOSING"}
    /\ \E err \in BOOLEAN :
          /\ (elState = "CONNECTING") => err
          /\ LET tw0 == Sock(twilioState, twCloseCalls)
                 tw1 == IF err THEN ElOnErrorEffect(tw0) ELSE tw0
                 tw2 == ElOnCloseEffect(tw1)
             IN  /\ twilioState' = tw2.st
                 /\ twCloseCalls' = tw2.calls
          /\ lastEv' = Ev("elClose", NoMsg, err)
    /\ elState' = "CLOSED"
    /\ UNCHANGED <<variant, pc, streamSid, elevenlabsReady, audioBuffer,
                   pendingBlobs, elSent, twSent, elCloseCalls, nMsgs, hist>>

(***************************************************************************)
(* twilioSocket handlers.                                                  *)
(***************************************************************************)
\* event "start": `streamSid = message.start.streamSid`; reading the field
\* of a missing `start` object throws before the assignment
StartSid(m) ==
    IF m.shape = "ok" THEN m.sid
    ELSE IF m.shape = "nofield" THEN UndefSid
    ELSE streamSid

\* `elevenlabsReady && elevenlabsSocket?.readyState === WebSocket.OPEN`
MediaReady == elevenlabsReady /\ elState = "OPEN"

\* the binary variants decode before the readiness test: whether a media
\* event gets as far as that test.  part_000 first requires a truthy
\* `message.media?.payload`; part_001 reads `message.media.payload` (throws
\* without `media`) and atob(undefined) rejects the text "undefined".
MediaDecoded(m) ==
    IF variant = "p0"
    THEN m.shape = "ok" /\ m.payload # <<>> /\ AtobOk(m.payload)
    ELSE m.shape = "ok" /\ AtobOk(m.payload)

\* event "media": the sends to the agent socket.  media-bridge.ts forwards
\* the base64 text as it is (a missing payload serializes to "{}", a
\* missing `media` object throws); the binary variants send the bytes.
MediaSends(m) ==
    IF ~MediaReady THEN <<>>
    ELSE IF variant = "main" THEN
        IF m.shape = "ok"
        THEN <<Frame("chunk", m.payload, NoId, NullSid, elState)>>
        ELSE IF m.shape = "nofield"
        THEN <<Frame("chunk_absent", <<>>, NoId, NullSid, elState)>>
        ELSE <<>>
    ELSE IF MediaDecoded(m)
        THEN <<Frame("bin", Atob(m.payload), NoId, NullSid, elState)>>
        ELSE <<>>

\* event "media": the units pushed on audioBuffer (media-bridge.ts has no
\* queue; part_000 queues the base64 text, part_001 the decoded bytes)
MediaQueued(m) ==
    IF variant = "main" \/ MediaReady \/ ~MediaDecoded(m) THEN <<>>
    ELSE IF variant = "p0" THEN <<m.payload>>
    ELSE <<Atob(m.payload)>>

\* a stop that calls close() on any existing agent socket in every variant
StopEffectAlways(el) ==
    IF el.st # "null" THEN Sock(CloseSock(el.st), el.calls + 1) ELSE el

\* event "stop" applied to the agent socket: part_000 calls
\* `elevenlabsSocket?.close()`, the other two close only an OPEN socket
StopEffect(el) ==
    IF variant = "p0"
    THEN IF el.st # "null" THEN Sock(CloseSock(el.st), el.calls + 1) ELSE el
    ELSE IF el.st = "OPEN" THEN Sock("CLOSING", el.calls + 1) ELSE el

\* twilioSocket.onclose applied to the agent socket (same tests as "stop")
TwilioOnCloseEffect(el) ==
    IF variant = "p0"
    THEN IF el.st # "null" THEN Sock(CloseSock(el.st), el.calls + 1) ELSE el
    ELSE IF el.st = "OPEN" THEN Sock("CLOSING", el.calls + 1) ELSE el

\* a media event that carries audio: well-formed, non-empty base64
CarriesAudio(m) ==
    m.event = "media" /\ m.shape = "ok" /\ m.payload # <<>> /\ AtobOk(m.payload)

\* what the environment did, whatever the handler makes of it
Observe(m) ==
    IF m.event = "stop" THEN [hist EXCEPT !.stopped = TRUE]
    ELSE IF ~CarriesAudio(m) THEN hist
    ELSE IF ~hist.elOpened
    THEN [hist EXCEPT !.preOpenMedia = Append(@, Atob(m.payload))]
    ELSE [hist EXCEPT !.liveMedia =
                Append(@, [data |-> Atob(m.payload), st |-> elState])]

\* the caller socket's message handler; everything that throws lands in
\* the handler's catch, which only logs
TwilioOnMessage ==
    /\ twilioState \in {"OPEN", "CLOSING"}
    /\ nMsgs < MaxMsgs
    /\ nMsgs' = nMsgs + 1
    /\ \E m \in CallerMsgs :
          /\ lastEv' = Ev("twMsg", m, FALSE)
          /\ hist' = Observe(m)
          /\ streamSid' = IF m.event = "start" THEN StartSid(m) ELSE streamSid
          /\ elSent' = IF m.event = "media"
                       THEN elSent \o MediaSends(m) ELSE elSent
          /\ audioBuffer' = IF m.event = "media"
                            THEN audioBuffer \o MediaQueued(m) ELSE audioBuffer
          /\ LET el == IF m.event = "stop"
                       THEN StopEffect(Sock(elState, elCloseCalls))
                       ELSE Sock(elState, elCloseCalls)
             IN  /\ elState' = el.st
                 /\ elCloseCalls' = el.calls
    /\ UNCHANGED <<variant, pc, twilioState, elevenlabsReady, pendingBlobs,
                   twSent, twCloseCalls>>

\* the caller connection ends: cleanly, or by failure (twilioSocket.onerror
\* only logs, then the close event follows)
TwilioOnClose ==
    /\ twilioState \in {"OPEN", "CLOSING"}
    /\ twilioState' = "CLOSED"
    /\ \E err \in BOOLEAN : lastEv' = Ev("twClose", NoMsg, err)
    /\ LET el == TwilioOnCloseEffect(Sock(elState, elCloseCalls))
       IN  /\ elState' = el.st
           /\ elCloseCalls' = el.calls
    /\ UNCHANGED <<variant, pc, streamSid, elevenlabsReady, audioBuffer,
                   pendingBlobs, elSent, twSent, twCloseCalls, nMsgs, hist>>

Next ==
    \/ TwilioOnOpen
    \/ FetchSettle
    \/ TextSettle
    \/ JsonSettle
    \/ ElOnOpen
    \/ ElOnMessage
    \/ BlobSettle
    \/ ElOnClose
    \/ TwilioOnMessage
    \/ TwilioOnClose

Spec == Init /\ [][Next]_vars

TypeOK ==
    /\ variant \in Variants
    /\ pc \in {"idle", "fetch", "text", "json", "done"}
    /\ twilioState \in {"CONNECTING", "OPEN", "CLOSING", "CLOSED"}
    /\ elState \in {"null", "CONNECTING", "OPEN", "CLOSING", "CLOSED"}
    /\ elevenlabsReady \in BOOLEAN
    /\ nMsgs \in 0..MaxMsgs

(***************************************************************************)
(* Properties.                                                             *)
(***************************************************************************)
DataOf(frames) == [i \in 1..Len(frames) |-> frames[i].data]

\* the non-empty binary audio frames that reached the agent, in wire order
AgentAudio ==
    DataOf(SelectSeq(Delivered(elSent),
                     LAMBDA f : f.kind = "bin" /\ f.data # <<>>))

\* the audio of caller media events handled after the agent's open handler
\* while the agent socket was open
LiveOpenMedia ==
    DataOf(SelectSeq(hist.liveMedia, LAMBDA e : e.st = "OPEN"))

\* C1: in the buffering variants, once the agent's open handler has run, the
\* agent has received the session initialization first and then the audio
\* of every caller media event handled before the open handler, once each
\* and in arrival order, followed by the audio forwarded live.  (Media
\* events are those that carry audio: well-formed, non-empty base64.)
BufferedAudioInOrder ==
    (variant \in Buffering /\ hist.elOpened) =>
        /\ Delivered(elSent)[1].kind = "init"
        /\ AgentAudio = hist.preOpenMedia \o LiveOpenMedia

BufferedAudioInOrderWitness ==
    /\ variant \in Buffering
    /\ hist.elOpened
    /\ Len(hist.preOpenMedia) = 2
    /\ hist.preOpenMedia[1] # hist.preOpenMedia[2]
    /\ Len(LiveOpenMedia) = 1
    /\ Len(AgentAudio) = 3

\* C2: once the caller connection has closed and the connection sequence
\* has finished, the agent socket is not open.
CallerClosedAgentNotOpen ==
    (twilioState = "CLOSED" /\ pc = "done") => elState # "OPEN"

\* the audio of the JSON chunks that reached the agent, in wire order
AgentChunkAudio ==
    LET fs == SelectSeq(Delivered(elSent),
                        LAMBDA f : f.kind = "chunk" /\ f.data # <<>>
                                      /\ AtobOk(f.data))
    IN  [i \in 1..Len(fs) |-> Atob(fs[i].data)]

\* C3: in media-bridge.ts, the audio of media events handled before the
\* agent is ready is kept and reaches the agent once it is ready.
MainPreReadyMediaKept ==
    (variant = "main" /\ hist.elOpened) =>
        /\ Len(AgentChunkAudio) >= Len(hist.preOpenMedia)
        /\ SubSeq(AgentChunkAudio, 1, Len(hist.preOpenMedia))
              = hist.preOpenMedia

\* C4: after a non-success credential response no agent socket exists, the
\* readiness flag is false, and once the handler has finished the caller
\* socket has been closed by it.
CredentialFailureClosesCaller ==
    hist.fetch = "notok" =>
        /\ elState = "null"
        /\ ~elevenlabsReady
        /\ pc = "done" =>
              (twCloseCalls >= 1 /\ twilioState \in {"CLOSING", "CLOSED"})

CredentialFailureWitness ==
    /\ hist.fetch = "notok"
    /\ pc = "done"
    /\ twilioState = "CLOSING"
    /\ twCloseCalls = 1

AgentAudioStep ==
    \/ lastEv'.kind = "blob"
    \/ lastEv'.kind = "elMsg" /\ lastEv'.msg.type = "audio"

\* C5: a media frame is sent to the caller only while the caller socket is
\* open and a non-blank session identifier is stored, and it carries that
\* identifier; agent audio handled in any other state changes nothing.
MediaFramesCarrySid ==
    [][/\ (Len(twSent') > Len(twSent) /\ twSent'[Len(twSent')].kind = "media")
          => /\ twilioState = "OPEN"
             /\ streamSid \notin BlankSids
             /\ twSent' = Append(twSent, twSent'[Len(twSent')])
             /\ twSent'[Len(twSent')].sid = streamSid
             /\ twSent'[Len(twSent')].st = "OPEN"
       /\ (AgentAudioStep /\ (streamSid \in BlankSids \/ twilioState # "OPEN"))
          => UNCHANGED <<twSent, elSent, streamSid, elevenlabsReady,
                         audioBuffer, twilioState, elState, twCloseCalls,
                         elCloseCalls, pc>>
      ]_vars

MediaFramesCarrySidWitness ==
    /\ streamSid = "SID2"
    /\ Len(twSent) = 1
    /\ twSent[1].kind = "media"
    /\ twSent[1].sid = "SID2"

\* C6: the agent's close event, fired while the caller socket is open,
\* closes the caller socket.
AgentCloseClosesCaller ==
    [][(lastEv'.kind = "elClose" /\ twilioState = "OPEN")
          => (twilioState' = "CLOSING" /\ twCloseCalls' = twCloseCalls + 1)
      ]_vars

AgentCloseWitness ==
    /\ lastEv.kind = "elClose"
    /\ ~lastEv.flag
    /\ hist.elOpened
    /\ twilioState = "CLOSING"
    /\ twCloseCalls = 1

PingStep(x) ==
    /\ variant = "main"
    /\ lastEv'.kind = "elMsg"
    /\ lastEv'.msg.type = "ping"
    /\ lastEv'.msg.id = x

\* C7: in media-bridge.ts, handling a ping with event identifier x puts
\* exactly one pong with event_id x on the agent connection, and nothing
\* else sends a pong.
PingAnsweredOnce ==
    [][/\ \A x \in EventIds :
             PingStep(x) =>
                elSent' = Append(elSent, Frame("pong", <<>>, x, NullSid, "OPEN"))
       /\ (Len(elSent') > Len(elSent) /\ elSent'[Len(elSent')].kind = "pong")
             => \E x \in EventIds : PingStep(x)
      ]_vars

InterruptionStep ==
    /\ variant = "main"
    /\ lastEv'.kind = "elMsg"
    /\ lastEv'.msg.type = "interruption"

\* C8 as stated: in media-bridge.ts, every interruption sends exactly one
\* clear frame, without payload, to the caller.
InterruptionAlwaysClears ==
    [][InterruptionStep =>
          /\ Len(twSent') = Len(twSent) + 1
          /\ twSent'[Len(twSent')].kind = "clear"
          /\ twSent'[Len(twSent')].data = <<>>
      ]_vars

\* C8 as amended: in media-bridge.ts, an interruption handled while a
\* non-blank session identifier is stored and the caller socket is open
\* sends exactly one clear frame, without payload and addressed with that
\* identifier; in any other state it sends nothing.  Frames are sent in the
\* order the agent events are handled (the caller log only grows at its
\* end), so the clear frame precedes the media of any later agent audio.
InterruptionClearsWhenAddressable ==
    [][/\ InterruptionStep =>
             twSent' = IF streamSid \notin BlankSids /\ twilioState = "OPEN"
                       THEN Append(twSent,
                                   Frame("clear", <<>>, NoId, streamSid, "OPEN"))
                       ELSE twSent
       /\ variant = "main" =>
             /\ Len(twSent') \in {Len(twSent), Len(twSent) + 1}
             /\ SubSeq(twSent', 1, Len(twSent)) = twSent
      ]_vars

InterruptionWitness ==
    /\ variant = "main"
    /\ Len(twSent) = 2
    /\ twSent[1].kind = "clear"
    /\ twSent[1].st = "OPEN"
    /\ twSent[2].kind = "media"
    /\ lastEv.kind = "elMsg"
    /\ lastEv.msg.type = "audio"

\* C9: in the buffering variants, nothing is queued once the readiness flag
\* is true: readiness implies an empty queue.
ReadyImpliesQueueEmpty ==
    (variant \in Buffering /\ elevenlabsReady) => audioBuffer = <<>>

\* C10: once a start event has stored a session identifier, no later event
\* changes it.
SidNeverOverwritten ==
    [][streamSid \notin BlankSids => streamSid' = streamSid]_vars

\* C11 as stated: in media-bridge.ts and part_000, close() is called at
\* most once on the agent socket and at most once on the caller socket.
CloseRequestedAtMostOnce ==
    variant \in {"main", "p0"} => (elCloseCalls <= 1 /\ twCloseCalls <= 1)

\* C11 as amended: in media-bridge.ts and part_000 close() is called at
\* most once on the caller socket; media-bridge.ts calls close() at most
\* once on the agent socket; part_000 may call it again on the agent
\* socket, but every call after the first finds the socket closing or
\* closed and leaves its state as it is.
CloseEffectiveAtMostOnce ==
    /\ [](variant \in {"main", "p0"} =>
            (twCloseCalls <= 1 /\ (variant = "main" => elCloseCalls <= 1)))
    /\ [][(variant = "p0" /\ elCloseCalls >= 1 /\ elCloseCalls' > elCloseCalls)
             => (elState \in {"CLOSING", "CLOSED"} /\ elState' = elState)
         ]_vars

CloseEffectiveWitness ==
    /\ variant = "p0"
    /\ elCloseCalls = 2
    /\ elState = "CLOSING"
    /\ lastEv.kind = "twClose"

\* C12: the agent socket has been sent exactly one session-initialization
\* message if the call has reached readiness and none otherwise, and that
\* message is the first thing sent on the agent socket.
OneInitFirst ==
    /\ Len(SelectSeq(elSent, LAMBDA f : f.kind = "init"))
          = (IF elevenlabsReady THEN 1 ELSE 0)
    /\ ~elevenlabsReady => elSent = <<>>
    /\ elSent # <<>> => (elSent[1].kind = "init" /\ elSent[1].st = "OPEN")

OneInitFirstWitness ==
    /\ elevenlabsReady
    /\ Len(elSent) = 3
    /\ elSent[1].kind = "init"
    /\ elSent[2].kind = "bin"
    /\ elSent[3].kind = "bin"
    /\ lastEv.kind = "twMsg"

\* C13: once a stop event has been handled and the connection sequence has
\* settled (no credential exchange in flight, agent socket not connecting),
\* the agent socket is not open.
StopClosesAgent ==
    (hist.stopped /\ pc = "done" /\ elState # "CONNECTING")
        => elState # "OPEN"

\* C14: the readiness flag starts false, is set only by the agent socket's
\* open handler, and once true stays true.
ReadinessMonotonic ==
    /\ ~elevenlabsReady
    /\ [][/\ elevenlabsReady => elevenlabsReady'
          /\ (~elevenlabsReady /\ elevenlabsReady') => lastEv'.kind = "elOpen"
         ]_vars

ReadinessMonotonicWitness ==
    /\ elevenlabsReady
    /\ hist.stopped
    /\ elState = "CLOSED"
    /\ twilioState = "CLOSED"

\* a caller message that cannot be parsed or decoded: text that is not
\* JSON, a start or media event without its nested object, a media payload
\* that is not base64
Malformed(m) ==
    \/ m.event = "badjson"
    \/ m.event \in {"start", "media"} /\ m.shape = "noobject"
    \/ m.event = "media" /\ m.shape = "ok" /\ ~AtobOk(m.payload)

\* C15: handling a malformed caller message closes neither socket, leaves
\* the session identifier, the readiness flag and the queue as they are,
\* and sends nothing.
MalformedDroppedAlone ==
    [][(lastEv'.kind = "twMsg" /\ Malformed(lastEv'.msg))
          => UNCHANGED <<twilioState, elState, streamSid, elevenlabsReady,
                         audioBuffer, elSent, twSent, twCloseCalls,
                         elCloseCalls>>
      ]_vars

BinaryPingStep(x) ==
    /\ variant \in Buffering
    /\ lastEv'.kind = "elMsg"
    /\ lastEv'.msg.type = "ping"
    /\ lastEv'.msg.id = x

\* C16: in the binary-audio variants, handling a ping with event identifier
\* x sends a pong with event_id x to the agent.
BinaryPingAnswered ==
    [][\A x \in EventIds :
          BinaryPingStep(x) =>
             /\ Len(elSent') = Len(elSent) + 1
             /\ elSent'[Len(elSent')].kind = "pong"
             /\ elSent'[Len(elSent')].id = x
      ]_vars

(***************************************************************************)
(* The listener in front of the bridge: the request is answered before the *)
(* bridge state exists.  SpecServe starts one step earlier than Spec, at   *)
(* the arrival of the request.                                             *)
(***************************************************************************)
\* values that are falsy in `if (!agentId)` / `if (!ELEVENLABS_API_KEY)`
AbsentValues == {NullSid, UndefSid, ""}

Request(upgrade, agentId, apiKey, path) ==
    [upgrade |-> upgrade, agentId |-> agentId, apiKey |-> apiKey,
     path |-> path]

\* upgrade requests with every combination of agent_id and configured key,
\* and plain requests on three paths
Requests ==
    {Request(TRUE, a, k, "/") :
        a \in {NullSid, "", "agent1"}, k \in {UndefSid, "", "key1"}}
    \cup {Request(FALSE, NullSid, "key1", p) : p \in {"/", "/health", "/other"}}

InitRequest ==
    /\ variant \in Variants
    /\ pc = "request"
    /\ twilioState = "none"
    /\ elState = "null"
    /\ streamSid = NullSid
    /\ elevenlabsReady = FALSE
    /\ audioBuffer = <<>>
    /\ pendingBlobs = <<>>
    /\ elSent = <<>>
    /\ twSent = <<>>
    /\ twCloseCalls = 0
    /\ elCloseCalls = 0
    /\ nMsgs = 0
    /\ lastEv = Ev("init", NoMsg, FALSE)
    /\ \E r \in Requests :
          hist = [fetch |-> "none", threw |-> FALSE, elOpened |-> FALSE,
                  preOpenMedia |-> <<>>, liveMedia |-> <<>>,
                  stopped |-> FALSE, blobsIn |-> <<>>, req |-> r]

\* a listener that upgrades without checking the configured credential
ServeResponseNoKeyCheck(req) ==
    IF req.upgrade THEN
        IF req.agentId \in AbsentValues THEN "resp400" ELSE "idle"
    ELSE IF variant = "p0" \/ req.path \in {"/health", "/"} THEN "resp200"
    ELSE "resp426"

\* where the serve callback ends: an error response, a plain response, or
\* "idle": the connection is upgraded and the bridge state is created
ServeResponse(req) ==
    IF req.upgrade THEN
        IF req.agentId \in AbsentValues THEN "resp400"
        ELSE IF req.apiKey \in AbsentValues THEN "resp500"
        ELSE "idle"
    ELSE IF variant = "p0" \/ req.path \in {"/health", "/"} THEN "resp200"
    ELSE "resp426"

ServeRequest ==
    /\ pc = "request"
    /\ pc' = ServeResponse(hist.req)
    /\ twilioState' = IF ServeResponse(hist.req) = "idle"
                      THEN "CONNECTING" ELSE twilioState
    /\ lastEv' = Ev("serve", NoMsg, FALSE)
    /\ UNCHANGED <<variant, elState, streamSid, elevenlabsReady, audioBuffer,
                   pendingBlobs, elSent, twSent, twCloseCalls, elCloseCalls,
                   nMsgs, hist>>

NextServe ==
    \/ ServeRequest
    \/ Next

SpecServe == InitRequest /\ [][NextServe]_vars

\* C17: an upgrade request without agent identifier, or with no service
\* credential configured, is answered with an error response (400, else
\* 500); the connection is not upgraded, no credential exchange is issued
\* and no agent socket is created.
RejectedUpgradeNeverStarts ==
    (/\ pc # "request"
     /\ hist.req.upgrade
     /\ (hist.req.agentId \in AbsentValues \/ hist.req.apiKey \in AbsentValues))
        => /\ pc = (IF hist.req.agentId \in AbsentValues
                    THEN "resp400" ELSE "resp500")
           /\ twilioState = "none"
           /\ elState = "null"
           /\ hist.fetch = "none"
           /\ elSent = <<>>

RejectedUpgradeWitness ==
    /\ pc = "resp500"
    /\ hist.req.agentId = "agent1"
    /\ hist.req.apiKey = ""
    /\ lastEv.kind = "serve"

MediaOf(p) == CallerMsg("media", "ok", NullSid, p)

\* C18: in the buffering variants, for every payload, the frames the flush
\* sends for that payload when it was queued before readiness are the
\* frames the media handler sends for it live once the agent is ready
\* (compared across the open handler's step: queued in the state before it,
\* sent live in the state after it).
BufferedPathEqualsLivePath ==
    [][(variant \in Buffering /\ lastEv'.kind = "elOpen") =>
          \A p \in Payloads :
             DrainFrames(MediaQueued(MediaOf(p)), "OPEN")
                = (MediaSends(MediaOf(p)))'
      ]_vars

\* the same payload delivered once through the queue and once live
BufferedPathWitness ==
    /\ variant \in Buffering
    /\ Len(hist.preOpenMedia) = 1
    /\ Len(hist.liveMedia) = 1
    /\ hist.liveMedia[1].data = hist.preOpenMedia[1]
    /\ Len(elSent) = 3
    /\ elSent[2] = elSent[3]
    /\ elSent[2].kind = "bin"

RECURSIVE IsSubseq(_, _)
\* a is b with some elements left out, order kept
IsSubseq(a, b) ==
    IF Len(a) = 0 THEN TRUE
    ELSE IF Len(b) = 0 THEN FALSE
    ELSE IF a[1] = b[1] THEN IsSubseq(Tail(a), Tail(b))
    ELSE IsSubseq(a, Tail(b))

\* C19: in the binary-audio variants, the media frames sent to the caller
\* carry the agent's binary frames in the order the agent sent them (some
\* possibly dropped, none overtaking another).
AgentAudioInArrivalOrder ==
    variant \in Buffering =>
        IsSubseq(DataOf(SelectSeq(twSent, LAMBDA f : f.kind = "media")),
                 [i \in 1..Len(hist.blobsIn) |-> Btoa(hist.blobsIn[i])])

\* C20: in media-bridge.ts, every send() call on either socket meets that
\* socket in the open state.
SendsOnlyWhenOpen ==
    variant = "main" =>
        /\ \A i \in 1..Len(elSent) : elSent[i].st = "OPEN"
        /\ \A i \in 1..Len(twSent) : twSent[i].st = "OPEN"

\* C21: once a step of the connection sequence has thrown (the fetch
\* rejected, a response body could not be read or parsed, the WebSocket
\* constructor threw), the sequence is over, close() has been called on
\* the caller socket, which is closing or closed, no agent socket exists
\* and the readiness flag is false.
ConnectFailureClosesCaller ==
    hist.threw =>
        /\ pc = "done"
        /\ twCloseCalls >= 1
        /\ twilioState \in {"CLOSING", "CLOSED"}
        /\ elState = "null"
        /\ ~elevenlabsReady

ConnectFailureWitness ==
    /\ hist.threw
    /\ hist.fetch = "ok"
    /\ lastEv.kind = "json"
    /\ twilioState = "CLOSING"
    /\ twCloseCalls = 1

====
